---- MODULE Spec2Model ----
(***************************************************************************)
(* Nexus assistant: the guarded file-read tool, the function-calling loop  *)
(* and the two presentation shells (REPL: nexus_chat.py, web:              *)
(* nexus_app.py).                                                          *)
(*                                                                         *)
(* Text is modelled as a sequence of tokens (a token is one or more        *)
(* characters), so that str.startswith, str.lower, str.strip and           *)
(* os.path.join are computed on the text and not assumed.                  *)
(*                                                                         *)
(* The model client (google.genai) is an external collaborator: a send     *)
(* either fails (raises) or is answered by a response that carries a list  *)
(* of function calls, or, when that list is empty, a text.                 *)
(***************************************************************************)
EXTENDS Integers, Sequences, FiniteSets, TLC

\* ------------------------------------------------------------------ bounds
\* user turns started in one session
MaxTurns == 2
\* follow-up (tool result) messages in one turn
MaxRounds == 1
\* function calls carried by one model response
MaxCalls == 2

\* ------------------------------------------------------------ text helpers
Whitespace == {" ", "\t", "\n"}

\* str.lower() on one character of the alphabet the inputs use
LowerChar(c) ==
    CASE c = "E" -> "e"
      [] c = "X" -> "x"
      [] c = "I" -> "i"
      [] c = "T" -> "t"
      [] c = "Q" -> "q"
      [] c = "U" -> "u"
      [] c = "H" -> "h"
      [] OTHER -> c

\* str.lower()
lower(s) == [i \in DOMAIN s |-> LowerChar(s[i])]

RECURSIVE lstrip(_)
lstrip(s) ==
    IF s # <<>> /\ Head(s) \in Whitespace THEN lstrip(Tail(s)) ELSE s

RECURSIVE rstrip(_)
rstrip(s) ==
    IF s # <<>> /\ s[Len(s)] \in Whitespace
    THEN rstrip(SubSeq(s, 1, Len(s) - 1))
    ELSE s

\* str.strip()
strip(s) == rstrip(lstrip(s))

\* str.startswith(prefix)
startswith(s, prefix) ==
    /\ Len(prefix) <= Len(s)
    /\ SubSeq(s, 1, Len(prefix)) = prefix

\* ------------------------------------------------------- paths (ntpath)
\* The base directory is a Windows path ("C:\\nexus"), so os.path is
\* ntpath: "\\" and "/" both separate, and a path may carry a drive.
\* base_path = "C:\\nexus"
base_path == <<"C:", "\\", "nexus">>

Seps == {"\\", "/"}
Drives == {"C:", "D:"}

\* ntpath.splitroot: the drive of a path ("" when it has none)
DriveOf(p) == IF p # <<>> /\ p[1] \in Drives THEN p[1] ELSE ""

\* the path without its drive
NoDrive(p) == IF DriveOf(p) # "" THEN Tail(p) ELSE p

\* ntpath.splitroot: the path has a root (is absolute on its drive)
HasRoot(p) == NoDrive(p) # <<>> /\ NoDrive(p)[1] \in Seps

\* os.path.join(a, p) for two components, as ntpath.join computes it
join(a, p) ==
    IF HasRoot(p)
    THEN \* second path is absolute: it replaces the first
         (IF DriveOf(p) # "" THEN <<DriveOf(p)>>
          ELSE IF DriveOf(a) # "" THEN <<DriveOf(a)>> ELSE <<>>) \o NoDrive(p)
    ELSE IF DriveOf(p) # "" /\ DriveOf(p) # DriveOf(a)
    THEN \* different drive: the first path is ignored entirely
         p
    ELSE \* second path is relative to the first
         IF a # <<>> /\ a[Len(a)] \notin Seps
         THEN a \o <<"\\">> \o NoDrive(p)
         ELSE a \o NoDrive(p)

\* ------------------------------------------- the local file system (C:)
\* The path split at its separators, each segment a token sequence.
RECURSIVE SplitFrom(_, _, _)
SplitFrom(p, i, cur) ==
    IF i > Len(p) THEN <<cur>>
    ELSE IF p[i] \in Seps THEN <<cur>> \o SplitFrom(p, i + 1, <<>>)
    ELSE SplitFrom(p, i + 1, Append(cur, p[i]))

\* The segments with "", "." and ".." resolved, as the operating system
\* resolves the path handed to open().
RECURSIVE Normalize(_, _)
Normalize(segs, acc) ==
    IF segs = <<>> THEN acc
    ELSE IF Head(segs) = <<>> \/ Head(segs) = <<".">>
    THEN Normalize(Tail(segs), acc)
    ELSE IF Head(segs) = <<"..">>
    THEN Normalize(Tail(segs),
                   IF acc = <<>> THEN acc ELSE SubSeq(acc, 1, Len(acc) - 1))
    ELSE Normalize(Tail(segs), Append(acc, Head(segs)))

\* The file a path names: its drive and its resolved segments.
Resolve(path) ==
    [drive |-> DriveOf(path),
     segs  |-> Normalize(SplitFrom(NoDrive(path), 1, <<>>), <<>>)]

\* The directory base_path names, resolved.
BaseDir == Resolve(base_path)

\* The resolved path is a strict descendant of the base directory.
InsideBase(path) ==
    LET r == Resolve(path) IN
    /\ r.drive = BaseDir.drive
    /\ Len(r.segs) > Len(BaseDir.segs)
    /\ SubSeq(r.segs, 1, Len(BaseDir.segs)) = BaseDir.segs

\* Files of the machine: C:\nexus\notes.txt, C:\secret.txt and
\* C:\nexus_private\key.txt; C:\nexus\docs is a directory.
NotesFile  == [drive |-> "C:", segs |-> << <<"nexus">>, <<"notes.txt">> >>]
SecretFile == [drive |-> "C:", segs |-> << <<"secret.txt">> >>]
KeyFile    == [drive |-> "C:", segs |-> << <<"nexus", "_private">>, <<"key.txt">> >>]
DocsDir    == [drive |-> "C:", segs |-> << <<"nexus">>, <<"docs">> >>]

\* Text of the files that lie outside the base directory.
OutsideTexts == { <<"top-secret">>, <<"private-key">> }

\* open(full_path, 'r') followed by f.read(): the text read, or the
\* exception raised.
open_read(path) ==
    LET r == Resolve(path) IN
    CASE r = NotesFile  -> [exc |-> "", text |-> <<"hello">>]
      [] r = SecretFile -> [exc |-> "", text |-> <<"top-secret">>]
      [] r = KeyFile    -> [exc |-> "", text |-> <<"private-key">>]
      [] r = DocsDir    -> [exc |-> "PermissionError", text |-> <<>>]
      [] OTHER          -> [exc |-> "FileNotFoundError", text |-> <<>>]

\* ------------------------------------------- tool: read_project_document
AccessDenied ==
    <<"Error: Access denied. Cannot read file outside ">> \o base_path \o <<".">>

NotFound(filename) ==
    <<"File '">> \o filename \o <<"' not found in the project directory.">>

ReadError(e) == <<"An error occurred while reading the file: ", e>>

\* The body of read_project_document for a str filename: the returned
\* text and the paths handed to open().
read_body(filename) ==
    LET full_path == join(base_path, filename) IN
    IF ~startswith(full_path, base_path)
    THEN [raised |-> "", result |-> AccessDenied, opened |-> <<>>]
    ELSE LET f == open_read(full_path) IN
         [raised |-> "",
          result |-> CASE f.exc = "" -> f.text
                       [] f.exc = "FileNotFoundError" -> NotFound(filename)
                       [] OTHER -> ReadError(f.exc),
          opened |-> <<full_path>>]

\* A Python value the model can put into a call's arguments.
StrVal(s) == [type |-> "str", val |-> s]
IntVal    == [type |-> "int", val |-> <<"123">>]

\* The keys of an argument mapping (a set of <<key, value>> pairs).
Keys(args) == {kv[1] : kv \in args}

\* read_project_document(**args): binding the arguments raises TypeError
\* unless args has exactly the key "filename"; os.path.join raises
\* TypeError on a filename that is no str (it runs before the try block).
read_project_document(args) ==
    IF Keys(args) # {"filename"}
    THEN [raised |-> "TypeError", result |-> <<>>, opened |-> <<>>]
    ELSE LET filename == (CHOOSE kv \in args : kv[1] = "filename")[2] IN
         IF filename.type # "str"
         THEN [raised |-> "TypeError", result |-> <<>>, opened |-> <<>>]
         ELSE read_body(filename.val)

\* ------------------------------------------------ inputs of the program
\* File names the model may ask for.
Filenames ==
    { <<"notes.txt">>,
      <<"missing.txt">>,
      <<"docs">>,
      <<"..", "/", "secret.txt">>,
      <<"C:", "\\", "nexus", "_private", "\\", "key.txt">>,
      <<"C:", "\\", "other", "\\", "x.txt">> }

\* Argument mappings the model may supply: a filename, a filename that is
\* no str, or no filename at all.
ArgSets ==
    {{<<"filename", StrVal(f)>>} : f \in Filenames}
        \cup {{<<"filename", IntVal>>}, {}}

\* Function calls a response may carry.
ToolCalls ==
    {[name |-> "read_project_document", args |-> a] : a \in ArgSets}
        \cup {[name |-> "send_email", args |-> {}]}

\* Final texts of the model.
Texts == { <<"o", "k">>, <<" ", "o", "k", "\n">> }

\* The calls a response may carry after its first one: a read inside the
\* base directory, an unknown tool and a read without a filename.
FollowingCalls ==
    { [name |-> "read_project_document",
       args |-> {<<"filename", StrVal(<<"notes.txt">>)>>}],
      [name |-> "send_email", args |-> {}],
      [name |-> "read_project_document", args |-> {}] }

\* The lists of 1..n calls: any first call, then following calls.
RECURSIVE CallLists(_)
CallLists(n) ==
    IF n = 0 THEN {}
    ELSE {<<c>> : c \in ToolCalls}
            \cup {Append(l, c) : l \in CallLists(n - 1), c \in FollowingCalls}

\* Responses of the model: function calls, or none and a text.
Responses ==
    {[function_calls |-> c, text |-> <<>>] : c \in CallLists(MaxCalls)}
    \cup {[function_calls |-> <<>>, text |-> t] : t \in Texts}

\* Lines typed at the REPL prompt.
ReplInputs ==
    { <<"e", "x", "i", "t">>, <<"E", "X", "I", "T">>, <<"Q", "u", "i", "t">>,
      <<>>, <<" ", "\t">>, <<" ", "e", "x", "i", "t">>, <<"h", "i">> }

\* Texts submitted to the web chat input (st.chat_input yields None, which
\* is falsy, while nothing is submitted).
WebInputs == { <<"h", "i">>, <<"e", "x", "i", "t">> }

\* ---------------------------------------------------------------- state
VARIABLES
    variant,        \* "repl" (nexus_chat.py) or "web" (nexus_app.py)
    credentials,    \* GEMINI_API_KEY is set in the environment
    pc,             \* position of the script
    client,         \* the client has been constructed
    chat,           \* the chat session has been created
    messages,       \* st.session_state.messages (web)
    user_input,     \* the line or chat input of the current turn
    response,       \* the last response of the model
    function_calls, \* the calls of the round being served
    tool_results,   \* the results collected in that round
    opened,         \* the paths handed to open() in that round
    sent,           \* the message in flight to the model, if any
    nsent,          \* number of messages handed to chat.send_message
    executed,       \* invocations of read_project_document in this turn
    followups,      \* tool result messages sent in this turn
    displayed,      \* the final text shown for the last finished turn
    turns,          \* turns started
    completed,      \* turns that displayed a final text
    failed,         \* turns ended by an exception (web)
    error           \* the uncaught exception that ended the turn, or ""

vars == <<variant, credentials, pc, client, chat, messages, user_input,
          response, function_calls, tool_results, opened, sent, nsent,
          executed, followups, displayed, turns, completed, failed, error>>

NoResponse == [function_calls |-> <<>>, text |-> <<>>]
NoMessage  == [kind |-> "none", text |-> <<>>, parts |-> <<>>]
TextMessage(t)  == [kind |-> "text", text |-> t, parts |-> <<>>]
ToolMessage(ps) == [kind |-> "tools", text |-> <<>>, parts |-> ps]

\* The initial greeting of the web history.
Greeting ==
    [role |-> "Nexus",
     content |-> <<"Hello Meg. Nexus is ready for your command.">>]

Init ==
    /\ variant \in {"repl", "web"}
    /\ credentials \in BOOLEAN
    /\ pc = "init"
    /\ client = FALSE
    /\ chat = FALSE
    /\ messages = <<>>
    /\ user_input = <<>>
    /\ response = NoResponse
    /\ function_calls = <<>>
    /\ tool_results = <<>>
    /\ opened = <<>>
    /\ sent = NoMessage
    /\ nsent = 0
    /\ executed = 0
    /\ followups = 0
    /\ displayed = [speaker |-> "", text |-> <<>>]
    /\ turns = 0
    /\ completed = 0
    /\ failed = 0
    /\ error = ""

\* ------------------------------------------------------------- startup
\* genai.Client() raises when the API key is missing.
construct_client == credentials

\* Mutant of StartupOutcome: the except branch does not stop the script.
StartupOutcome_NoHalt(ok) == [pc |-> "input", client |-> ok, chat |-> TRUE]

\* The script after the try/except around genai.Client(): on failure the
\* error is reported and the script stops (exit() / st.stop()); otherwise
\* the chat session is created.
StartupOutcome(ok) ==
    IF ok
    THEN [pc |-> "input", client |-> TRUE, chat |-> TRUE]
    ELSE [pc |-> "stopped", client |-> FALSE, chat |-> FALSE]

RunStartup ==
    LET o == StartupOutcome(construct_client) IN
    /\ pc' = o.pc
    /\ client' = o.client
    /\ chat' = o.chat
    /\ messages' = IF o.chat /\ variant = "web" THEN <<Greeting>> ELSE messages
    /\ UNCHANGED <<variant, credentials, user_input, response, function_calls,
                   tool_results, opened, sent, nsent, executed, followups,
                   displayed, turns, completed, failed, error>>

\* The script runs for the first time.
Startup ==
    /\ pc = "init"
    /\ RunStartup

\* Web: a stopped script is run again from the top on the next re-render;
\* "client" is still not in the session state.
Rerun ==
    /\ variant = "web"
    /\ pc = "stopped"
    /\ RunStartup

\* ------------------------------------------------------------ user input
ExitTokens == { <<"e", "x", "i", "t">>, <<"q", "u", "i", "t">> }

\* Mutant of InputKind: the exit test does not fold the letter case.
InputKind_CaseSensitive(s) ==
    IF s \in ExitTokens THEN "exit"
    ELSE IF strip(s) = <<>> THEN "blank"
    ELSE "send"

\* What the REPL does with a line: leave the loop, prompt again, or send.
InputKind(s) ==
    IF lower(s) \in ExitTokens THEN "exit"
    ELSE IF strip(s) = <<>> THEN "blank"
    ELSE "send"

\* chat.send_message(user_input): the start of a turn.
SendUser(s) ==
    /\ turns < MaxTurns
    /\ turns' = turns + 1
    /\ sent' = TextMessage(s)
    /\ nsent' = nsent + 1
    /\ executed' = 0
    /\ followups' = 0
    /\ error' = ""
    /\ pc' = "awaiting"

\* REPL: one iteration of `while True` up to the first send.
ReplInput(s) ==
    /\ variant = "repl"
    /\ pc \in {"input", "done"}
    /\ user_input' = s
    /\ CASE InputKind(s) = "exit" ->
              /\ pc' = "exited"
              /\ UNCHANGED <<turns, sent, nsent, executed, followups, error>>
         [] InputKind(s) = "blank" ->
              /\ pc' = "input"
              /\ UNCHANGED <<turns, sent, nsent, executed, followups, error>>
         [] OTHER -> SendUser(s)
    /\ UNCHANGED <<variant, credentials, client, chat, messages, response,
                   function_calls, tool_results, opened, displayed,
                   completed, failed>>

\* Mutant of WebInput: the user's message is sent but not appended to the
\* history.
WebInput_NoAppend(s) ==
    /\ variant = "web"
    /\ pc \in {"input", "done", "failed"}
    /\ user_input' = s
    /\ SendUser(s)
    /\ UNCHANGED <<variant, credentials, client, chat, messages, response,
                   function_calls, tool_results, opened, displayed,
                   completed, failed>>

\* Web: the script run that st.chat_input starts with a submitted text.
WebInput(s) ==
    /\ variant = "web"
    /\ pc \in {"input", "done", "failed"}
    /\ user_input' = s
    /\ messages' = Append(messages, [role |-> "Meg", content |-> s])
    /\ SendUser(s)
    /\ UNCHANGED <<variant, credentials, client, chat, response,
                   function_calls, tool_results, opened, displayed,
                   completed, failed>>

\* ------------------------------------------------------------ the model
\* An uncaught exception: the REPL process dies, the web script run ends
\* and the session state stays as it is.
Raise(e) ==
    /\ error' = e
    /\ pc' = IF variant = "repl" THEN "crashed" ELSE "failed"
    /\ failed' = IF variant = "web" THEN failed + 1 ELSE failed

\* chat.send_message returns a response. The message in flight is consumed;
\* function_calls and tool_results are assigned anew at the top of the loop
\* body before they are read again, so their old values are dropped here.
ModelReplies(r) ==
    /\ pc = "awaiting"
    /\ followups >= MaxRounds => r.function_calls = <<>>
    /\ response' = r
    /\ pc' = "received"
    /\ sent' = NoMessage
    /\ function_calls' = <<>>
    /\ tool_results' = <<>>
    /\ opened' = <<>>
    /\ UNCHANGED <<variant, credentials, client, chat, messages, user_input,
                   nsent, executed, followups, displayed, turns,
                   completed, failed, error>>

\* chat.send_message raises (transport or model error).
SendFails ==
    /\ pc = "awaiting"
    /\ Raise("SendError")
    /\ sent' = NoMessage
    /\ function_calls' = <<>>
    /\ tool_results' = <<>>
    /\ opened' = <<>>
    /\ UNCHANGED <<variant, credentials, client, chat, messages, user_input,
                   response, nsent, executed, followups, displayed,
                   turns, completed>>

\* ------------------------------------------------- function calling loop
\* Mutant of LoopContinues: the loop is left on a response with one call.
LoopContinues_OffByOne(resp) == Len(resp.function_calls) > 1

\* while response.function_calls:
LoopContinues(resp) == resp.function_calls # <<>>

UnknownTool(name) == <<"Error: Unknown tool ", name>>

\* The body of `for call in function_calls` for one call: the parts it
\* appends to tool_results, or the exception it raises.
Dispatch(v, call) ==
    IF call.name = "read_project_document"
    THEN LET r == read_project_document(call.args) IN
         [raised |-> r.raised,
          parts  |-> IF r.raised = "" 
                     THEN <<[name |-> call.name, result |-> r.result]>>
                     ELSE <<>>,
          opened |-> r.opened,
          executed |-> 1]
    ELSE [raised |-> "",
          parts  |-> IF v = "repl"
                     THEN <<[name |-> call.name, result |-> UnknownTool(call.name)]>>
                     ELSE <<>>,
          opened |-> <<>>,
          executed |-> 0]

\* The for loop over the calls, in the order received, from the state acc;
\* it ends at the first exception.
RECURSIVE ForCalls(_, _, _)
ForCalls(v, calls, acc) ==
    IF calls = <<>> THEN acc
    ELSE LET d == Dispatch(v, Head(calls))
             next == [raised   |-> d.raised,
                      parts    |-> acc.parts \o d.parts,
                      opened   |-> acc.opened \o d.opened,
                      executed |-> acc.executed + d.executed]
         IN IF d.raised # "" THEN next ELSE ForCalls(v, Tail(calls), next)

ExecuteCalls(v, calls) ==
    ForCalls(v, calls,
             [raised |-> "", parts |-> <<>>, opened |-> <<>>, executed |-> 0])

\* One iteration of the while loop: execute the calls of the response and
\* send the collected results back in one message.
RunTools ==
    /\ pc = "received"
    /\ LoopContinues(response)
    /\ LET x == ExecuteCalls(variant, response.function_calls) IN
       /\ function_calls' = response.function_calls
       /\ tool_results' = x.parts
       /\ opened' = x.opened
       /\ executed' = executed + x.executed
       /\ IF x.raised # ""
          THEN /\ Raise(x.raised)
               /\ UNCHANGED <<sent, nsent, followups>>
          ELSE /\ sent' = ToolMessage(x.parts)
               /\ nsent' = nsent + 1
               /\ followups' = followups + 1
               /\ pc' = "awaiting"
               /\ UNCHANGED <<failed, error>>
    /\ UNCHANGED <<variant, credentials, client, chat, messages, user_input,
                   response, displayed, turns, completed>>

\* Mutant of Display: the text is shown as received.
Display_NoStrip(text) == [speaker |-> "Nexus", text |-> text]

\* What is shown for the final response: the stripped text under the
\* speaker "Nexus" (print(f"Nexus: {response.text.strip()}") in the REPL,
\* st.markdown(response.text.strip()) inside st.chat_message("Nexus") in
\* the web variant).
Display(text) == [speaker |-> "Nexus", text |-> strip(text)]

\* The loop has ended: show the final text; the web variant appends it to
\* the history.
FinishTurn ==
    /\ pc = "received"
    /\ ~LoopContinues(response)
    /\ displayed' = Display(response.text)
    /\ messages' =
          IF variant = "web"
          THEN Append(messages,
                      [role |-> "Nexus", content |-> strip(response.text)])
          ELSE messages
    /\ completed' = completed + 1
    /\ pc' = "done"
    /\ UNCHANGED <<variant, credentials, client, chat, user_input, response,
                   function_calls, tool_results, opened, sent, nsent,
                   executed, followups, turns, failed, error>>

Next ==
    \/ Startup
    \/ Rerun
    \/ \E s \in ReplInputs : ReplInput(s)
    \/ \E s \in WebInputs : WebInput(s)
    \/ \E r \in Responses : ModelReplies(r)
    \/ SendFails
    \/ RunTools
    \/ FinishTurn

Spec == Init /\ [][Next]_vars

\* ---------------------------------------------------- scripted model
\* The model follows the script [one call to read_project_document, then a
\* response without calls].
Scripted(r) ==
    IF followups = 0
    THEN /\ Len(r.function_calls) = 1
         /\ r.function_calls[1].name = "read_project_document"
    ELSE r.function_calls = <<>>

ScriptedReply(r) ==
    /\ Scripted(r)
    /\ ModelReplies(r)

ScriptNext ==
    \/ Startup
    \/ Rerun
    \/ \E s \in ReplInputs : ReplInput(s)
    \/ \E s \in WebInputs : WebInput(s)
    \/ \E r \in Responses : ScriptedReply(r)
    \/ SendFails
    \/ RunTools
    \/ FinishTurn

ScriptSpec == Init /\ [][ScriptNext]_vars

\* ================================================================ claims
IsRead(c) == c.name = "read_project_document"

\* The call is a read with a str filename; FilenameOf is that filename.
HasFilename(c) ==
    /\ IsRead(c)
    /\ Keys(c.args) = {"filename"}
    /\ \A kv \in c.args : kv[2].type = "str"

FilenameOf(c) == (CHOOSE kv \in c.args : kv[1] = "filename")[2].val

\* A round has been served and its results are in flight to the model.
RoundSent == pc = "awaiting" /\ sent.kind = "tools"

\* C1: a filename whose resolution against the base directory lands
\* outside that directory is answered by the access-denied message, and
\* neither opened nor read: no path outside the base directory is handed
\* to open() and no result carries the text of a file outside it.
C1_OutsideIsDenied ==
    /\ \A i \in DOMAIN opened : InsideBase(opened[i])
    /\ \A i \in DOMAIN tool_results : tool_results[i].result \notin OutsideTexts
    /\ \A i \in DOMAIN function_calls :
          LET c == function_calls[i] IN
          (HasFilename(c) /\ ~InsideBase(join(base_path, FilenameOf(c))))
             => read_project_document(c.args).result = AccessDenied

\* C2: in both variants every call of an unknown tool has an explicit
\* error result carrying its name in the follow-up message; no call is
\* skipped without a result.
C2_UnknownToolHasErrorResult ==
    RoundSent =>
        \A i \in DOMAIN function_calls :
            ~IsRead(function_calls[i]) =>
                \E j \in DOMAIN sent.parts :
                    /\ sent.parts[j].name = function_calls[i].name
                    /\ sent.parts[j].result = UnknownTool(function_calls[i].name)

\* C6: in the web variant a turn whose send fails leaves the history as it
\* was before the turn: the user's message of the failed turn is not in
\* it (up to the first failure the history holds the greeting and two
\* entries per completed turn).
C6_FailedSendLeavesHistory ==
    (variant = "web" /\ pc = "failed" /\ error = "SendError" /\ failed = 1) =>
        /\ Len(messages) = 1 + 2 * completed
        /\ messages[Len(messages)] # [role |-> "Meg", content |-> user_input]

\* C7: read_project_document never raises to its caller: no turn is ended
\* by an exception of a tool call, whatever arguments the model supplies.
C7_ToolNeverRaises == error # "TypeError"

\* C10: the follow-up message of a round holds exactly one result per
\* received call, in the order of the calls.
C10_OneResultPerCallInOrder ==
    RoundSent =>
        /\ Len(sent.parts) = Len(function_calls)
        /\ \A i \in DOMAIN function_calls :
              i \in DOMAIN sent.parts
                 => sent.parts[i].name = function_calls[i].name

\* b is a with the whitespace at both of its ends removed.
Trimmed(a, b) ==
    \E i \in 1..(Len(a) + 1) : \E j \in 0..Len(a) :
        /\ b = SubSeq(a, i, j)
        /\ \A k \in 1..(i - 1) : a[k] \in Whitespace
        /\ \A k \in (j + 1)..Len(a) : a[k] \in Whitespace
        /\ b # <<>> => (b[1] \notin Whitespace /\ b[Len(b)] \notin Whitespace)

\* C3 as stated: a finished scripted turn has executed the tool once, sent
\* one follow-up, and displays the text of the second response.
C3_ScriptedTurnShowsText ==
    pc = "done" =>
        /\ executed = 1
        /\ followups = 1
        /\ displayed.text = response.text

\* C3 (amended): a finished scripted turn has executed
\* read_project_document exactly once, sent exactly one follow-up, and
\* displays the text of the second response with the whitespace at its
\* ends removed.
C3_ScriptedTurnShowsStrippedText ==
    pc = "done" =>
        /\ executed = 1
        /\ followups = 1
        /\ displayed.speaker = "Nexus"
        /\ Trimmed(response.text, displayed.text)

C3_Witness ==
    /\ pc = "done"
    /\ executed = 1
    /\ followups = 1
    /\ response.text = <<" ", "o", "k", "\n">>
    /\ displayed.text = <<"o", "k">>

\* C4 as stated: in the web variant the history after N completed turns has
\* exactly 2N entries, alternating user, assistant.
C4_HistoryHas2NEntries ==
    (variant = "web" /\ pc = "done") =>
        /\ Len(messages) = 2 * completed
        /\ \A i \in DOMAIN messages :
              messages[i].role = IF i % 2 = 1 THEN "Meg" ELSE "Nexus"

\* A turn is in progress.
InTurn == pc \in {"awaiting", "received"}

\* The history of the web session: the greeting, then per completed turn a
\* user entry followed by an assistant entry, and per failed turn a lone
\* user entry.
HistoryShape ==
    (variant = "web" /\ chat) =>
        /\ messages # <<>>
        /\ messages[1] = Greeting
        /\ Len(messages) =
              1 + 2 * completed + failed + (IF InTurn THEN 1 ELSE 0)
        /\ \A i \in DOMAIN messages : messages[i].role \in {"Meg", "Nexus"}
        /\ \A i \in 2..Len(messages) :
              messages[i].role = "Nexus" => messages[i - 1].role = "Meg"
        /\ Cardinality({i \in 1..(Len(messages) - 1) :
                           /\ messages[i].role = "Meg"
                           /\ messages[i + 1].role = "Meg"}) <= failed

\* Every step leaves the entries of the history as they are.
AppendOnly ==
    [][/\ Len(messages') >= Len(messages)
       /\ SubSeq(messages', 1, Len(messages)) = messages]_vars

\* C4 (amended): the web history starts with the assistant's greeting;
\* after N completed and F failed turns it has exactly 1 + 2N + F entries,
\* a user entry then an assistant entry per completed turn and a lone user
\* entry per failed turn, so the roles alternate strictly while no turn
\* has failed; every step only appends.
C4_HistoryGreetingPlus2N == []HistoryShape /\ AppendOnly

C4_Witness ==
    /\ variant = "web"
    /\ pc = "done"
    /\ completed = 2
    /\ failed = 0
    /\ Len(messages) = 5

\* C5: the loop ends a turn on a response without function calls and on no
\* other: a finished turn's last response carries no call; a response
\* without calls is followed by the end of the turn and no further send; a
\* response with calls never ends the turn, and when its calls are all of
\* unknown tools the results are sent and the loop awaits the model again.
C5_LoopEndsOnFirstResponseWithoutCalls ==
    /\ [](pc = "done" => response.function_calls = <<>>)
    /\ [][(pc = "received" /\ response.function_calls = <<>>)
             => (pc' = "done" /\ nsent' = nsent /\ completed' = completed + 1)]_vars
    /\ [][(pc = "received" /\ response.function_calls # <<>>)
             => (pc' # "done" /\ completed' = completed)]_vars
    /\ [][(/\ pc = "received"
           /\ response.function_calls # <<>>
           /\ \A i \in DOMAIN response.function_calls :
                 ~IsRead(response.function_calls[i]))
             => (pc' = "awaiting" /\ nsent' = nsent + 1)]_vars

\* A turn that served a round of unknown tools only has finished.
C5_Witness ==
    /\ pc = "done"
    /\ followups = 1
    /\ executed = 0
    /\ response.function_calls = <<>>

\* The letter in both cases.
BothCases(c) ==
    CASE c = "e" -> {"e", "E"}
      [] c = "x" -> {"x", "X"}
      [] c = "i" -> {"i", "I"}
      [] c = "t" -> {"t", "T"}
      [] c = "q" -> {"q", "Q"}
      [] c = "u" -> {"u", "U"}
      [] OTHER -> {c}

\* "exit" or "quit" in any letter case.
IsExitToken(s) ==
    \E w \in { <<"e", "x", "i", "t">>, <<"q", "u", "i", "t">> } :
        /\ Len(s) = Len(w)
        /\ \A i \in 1..Len(w) : s[i] \in BothCases(w[i])

\* Empty or whitespace only.
IsBlank(s) == \A i \in DOMAIN s : s[i] \in {" ", "\t", "\n"}

\* C8: in the REPL a line is sent to the model as a user message if and
\* only if it is neither an exit token nor blank; an exit token ends the
\* loop, after which nothing is sent; a blank line prompts again.
C8_ReplSendsIffNeitherExitNorBlank ==
    /\ [][(variant = "repl" /\ pc \in {"input", "done"}) =>
            /\ (nsent' = nsent + 1)
                  <=> (~IsExitToken(user_input') /\ ~IsBlank(user_input'))
            /\ nsent' \in {nsent, nsent + 1}
            /\ nsent' = nsent + 1 => sent' = TextMessage(user_input')
            /\ IsExitToken(user_input') => pc' = "exited"
            /\ IsBlank(user_input') => pc' = "input"]_vars
    /\ [][pc = "exited" => (pc' = "exited" /\ nsent' = nsent)]_vars

\* The REPL has been left by "Quit" after a completed turn.
C8_Witness ==
    /\ variant = "repl"
    /\ pc = "exited"
    /\ user_input = <<"Q", "u", "i", "t">>
    /\ completed = 1
    /\ nsent >= 1

\* C9: when the construction of the client fails, the script stops before
\* any chat: no chat session exists and no message is sent to the model,
\* in both variants and across the re-renders of the web variant.
C9_NoChatWithoutClient ==
    ~credentials =>
        /\ ~client
        /\ ~chat
        /\ nsent = 0
        /\ sent = NoMessage
        /\ messages = <<>>
        /\ pc \in {"init", "stopped"}

C9_Witness ==
    /\ ~credentials
    /\ pc = "stopped"
    /\ ~chat

====
